---- MODULE Spec2Model ----
(***************************************************************************)
(* State-machine model of t3rnzhixnigzhe.py: the interactive installer and *)
(* operator shell of the t3rn Executor.  One action per step of the        *)
(* script; what the operator types and the outcomes of external commands,  *)
(* network probes and file operations are drawn with \E.                   *)
(***************************************************************************)
EXTENDS Naturals, Integers, Sequences, FiniteSets, TLC

VARIABLES
  pc,             \* position of the script
  exit_code,      \* Running while the script runs, else the process exit code
  out,            \* messages printed by the last step
  cwd,            \* working directory: components below the start directory
  log_files,      \* directories (as cwd values) that hold an executor.log
  env_file,       \* content of .env in the working directory
  sessions,       \* screen sessions whose listing line contains t3rn-executor
  temp_exists,    \* the temporary file of view_order_stats exists on disk
  deploys,        \* deployments started in this run
  steps,          \* deploy_executor: <<step, succeeded>> of the steps run so far
  chain_idx,      \* configure_rpcs: index of the chain being processed
  rpcs,           \* configure_rpcs: the dict rpcs, as its items in insertion order
  skipped_chains, \* configure_rpcs: chains skipped so far
  custom_rpc,     \* configure_rpcs: its local custom_rpc
  prompts,        \* configure_rpcs: prompts issued for the current chain
  probes,         \* configure_rpcs: <<site, url, result>> of the probes of the current chain
  probed_ok,      \* <<chain, url>> pairs test_rpc returned True for in this flow
  site,           \* which call of test_rpc is running: public / alchemy / custom
  rpc_url,        \* test_rpc: its rpc_url argument
  rpc_chain,      \* test_rpc: its chain_name argument
  requests,       \* test_rpc: JSON-RPC methods posted so far
  responses,      \* test_rpc: what came back for each request
  rpc_ret,        \* test_rpc: its return value once it has returned
  private_key,    \* configure_env: the key typed
  env_content,    \* configure_env: the lines assembled so far
  opt_idx,        \* configure_env: index of the optional setting being asked
  now,            \* view_order_stats: datetime.now() at invocation
  log_lines,      \* view_order_stats: the lines of executor.log as the scan finds them
  log_rest,       \* view_order_stats: how many of them are not read yet
  temp,           \* view_order_stats: lines written to the temporary file
  temp_file,      \* view_order_stats: the local temp_file is bound
  completed,      \* view_order_stats: the completed count
  pending         \* view_order_stats: the unfinished lines

\* what outlives the process: the file system and the session table
diskVars == <<cwd, log_files, env_file, sessions, temp_exists>>
cfgVars == <<chain_idx, rpcs, skipped_chains, custom_rpc, prompts, probes, probed_ok,
             private_key, env_content, opt_idx>>
rpcVars == <<site, rpc_url, rpc_chain, requests, responses, rpc_ret>>
statVars == <<now, log_lines, log_rest, temp, temp_file, completed, pending>>
vars == <<pc, exit_code, out, deploys, steps, diskVars, cfgVars, rpcVars, statVars>>

(* ------------------------------ bounds -------------------------------- *)
\* chains of default_rpcs that the model walks through (the first NumChains)
NumChains == 2
\* lines of executor.log that one scan reads
MaxLines == 2
\* deployments started from the main menu in one run
MaxDeploys == 1

\* exit_code of a process that has not exited
Running == -1
NoFile == [kind |-> "absent"]
StaleFile == [kind |-> "stale"]

\* datetime.now() at the start of a scan, in seconds since 2024-01-01 00:00:00
Nows == {5000, 88200}

Min(S) == CHOOSE m \in S : \A n \in S : m <= n

(* ------------------------- locals and process exit -------------------- *)
CfgIdle ==
  /\ chain_idx' = 0
  /\ rpcs' = << >>
  /\ skipped_chains' = << >>
  /\ custom_rpc' = ""
  /\ prompts' = << >>
  /\ probes' = << >>
  /\ probed_ok' = {}
  /\ private_key' = ""
  /\ env_content' = NoFile
  /\ opt_idx' = 0

RpcIdle ==
  /\ site' = "none"
  /\ rpc_url' = ""
  /\ rpc_chain' = ""
  /\ requests' = << >>
  /\ responses' = << >>
  /\ rpc_ret' = "none"

StatsIdle ==
  /\ now' = 0
  /\ log_lines' = << >>
  /\ log_rest' = 0
  /\ temp' = << >>
  /\ temp_file' = FALSE
  /\ completed' = 0
  /\ pending' = << >>

\* the step goes on to position next, having printed msgs
Goto(next, msgs) ==
  /\ pc' = next
  /\ out' = msgs
  /\ UNCHANGED exit_code

\* the process ends with this code, having printed msgs; its memory is gone
Exit(code, msgs) ==
  /\ pc' = "exited"
  /\ exit_code' = code
  /\ out' = msgs
  /\ CfgIdle /\ RpcIdle /\ StatsIdle

\* sys.exit(1) after an error message
Abort(m) == Exit(1, <<m>>)

\* an exception that nothing below the top level catches: __main__ prints the
\* unknown-error message and exits 1
Uncaught == Exit(1, <<"unknown_error">>)

(* ------------------------------ test_rpc ------------------------------ *)
\* What one POST can come back with:
\*   result        well-formed JSON object with a "result" member
\*   no_result     well-formed JSON object (or array) without "result"
\*   request_error requests.RequestException: transport error, timeout, or
\*                 the HTTP error status raised by raise_for_status()
\*   malformed     body that is not JSON: response.json() raises ValueError
\*   not_container JSON null / number / boolean: `"result" in x` raises TypeError
Responses == {"result", "no_result", "request_error", "malformed", "not_container"}

\* first try block (eth_blockNumber): True, fall through to the second probe,
\* or an exception that the except clause does not name
test_rpc_eth(resp) ==
  CASE resp = "result" -> "True"
    [] resp \in {"request_error", "malformed"} -> "fallthrough"
    [] resp = "no_result" -> "fallthrough"
    [] OTHER -> "raise"

\* second try block (net_version): a body without "result" raises nothing, and
\* the function runs off its end
test_rpc_net(resp) ==
  CASE resp = "result" -> "True"
    [] resp \in {"request_error", "malformed"} -> "False"
    [] resp = "no_result" -> "None"
    [] OTHER -> "raise"

\* if test_rpc(...): None is as false as False
Truthy(ret) == ret = "True"

test_rpc_call(url, chain, s) ==
  /\ pc' = "test_rpc_eth"
  /\ rpc_url' = url
  /\ rpc_chain' = chain
  /\ site' = s
  /\ requests' = << >>
  /\ responses' = << >>
  /\ rpc_ret' = "none"

\* test_rpc hands ret back to its caller, having printed msgs
test_rpc_return(ret, msgs) ==
  /\ Goto("test_rpc_ret", msgs)
  /\ rpc_ret' = ret
  /\ probes' = Append(probes, <<site, rpc_url, ret>>)
  /\ probed_ok' = IF ret = "True" THEN probed_ok \cup {<<rpc_chain, rpc_url>>} ELSE probed_ok
  /\ UNCHANGED <<steps, site, rpc_url, rpc_chain, statVars>>
  /\ UNCHANGED <<chain_idx, rpcs, skipped_chains, custom_rpc, prompts, private_key, env_content, opt_idx>>

TestRpcEth ==
  /\ pc = "test_rpc_eth"
  /\ \E resp \in Responses :
       CASE test_rpc_eth(resp) = "True" ->
              /\ requests' = Append(requests, "eth_blockNumber")
              /\ responses' = Append(responses, resp)
              /\ test_rpc_return("True", <<"rpc_ok">>)
         [] test_rpc_eth(resp) = "fallthrough" ->
              /\ requests' = Append(requests, "eth_blockNumber")
              /\ responses' = Append(responses, resp)
              /\ Goto("test_rpc_net", << >>)
              /\ UNCHANGED <<steps, site, rpc_url, rpc_chain, rpc_ret, cfgVars, statVars>>
         [] OTHER -> Uncaught /\ steps' = Append(steps, <<"configuration", FALSE>>)
  /\ UNCHANGED <<deploys, diskVars>>

TestRpcNet ==
  /\ pc = "test_rpc_net"
  /\ \E resp \in Responses :
       CASE test_rpc_net(resp) \in {"True", "False", "None"} ->
              /\ requests' = Append(requests, "net_version")
              /\ responses' = Append(responses, resp)
              /\ test_rpc_return(test_rpc_net(resp),
                                 CASE test_rpc_net(resp) = "True" -> <<"rpc_ok_net_version">>
                                   [] test_rpc_net(resp) = "False" -> <<"rpc_unavailable">>
                                   [] OTHER -> << >>)
         [] OTHER -> Uncaught /\ steps' = Append(steps, <<"configuration", FALSE>>)
  /\ UNCHANGED <<deploys, diskVars>>

(* --------------------------- configure_rpcs --------------------------- *)
default_rpcs ==
  << <<"Arbitrum Sepolia", "https://sepolia-rollup.arbitrum.io/rpc">>,
     <<"Base Sepolia", "https://sepolia.base.org">>,
     <<"Blast Sepolia", "https://sepolia.blast.io">>,
     <<"l2rn", "https://rpc.l2rn.io">>,
     <<"Monad Testnet", "https://monad-testnet-rpc.monad.xyz">>,
     <<"OP Sepolia", "https://sepolia.optimism.io">>,
     <<"Unichain Sepolia", "https://sepolia.unichain.org">> >>

alchemy_hosts ==
  << "https://arb-sepolia.g.alchemy.com/v2/",
     "https://base-sepolia.g.alchemy.com/v2/",
     "https://blast-sepolia.g.alchemy.com/v2/",
     "https://l2rn-sepolia.g.alchemy.com/v2/",
     "https://monad-testnet.g.alchemy.com/v2/",
     "https://opt-sepolia.g.alchemy.com/v2/",
     "https://unichain-sepolia.g.alchemy.com/v2/" >>

alchemy_urls(i, alchemy_key) == alchemy_hosts[i] \o alchemy_key

ChainName(i) == default_rpcs[i][1]
Chains == {ChainName(i) : i \in 1..NumChains}

\* what the operator may type at a prompt, and str.strip() / str.lower() of it
Typed == {"", "  ", "KEY", " KEY ", "http://my.rpc", " http://my.rpc"}
Strip(s) ==
  CASE s = "  " -> ""
    [] s = " KEY " -> "KEY"
    [] s = " http://my.rpc" -> "http://my.rpc"
    [] s = " Y " -> "Y"
    [] s = " 7 " -> "7"
    [] OTHER -> s
Lower(s) == IF s = "Y" THEN "y" ELSE s
IsDigit(s) == s \in {"7"}

\* a dict as the sequence of its items in insertion order: d[k] = v
DictSet(d, k, v) ==
  IF \E i \in DOMAIN d : d[i][1] = k
    THEN [i \in DOMAIN d |-> IF d[i][1] = k THEN <<k, v>> ELSE d[i]]
    ELSE Append(d, <<k, v>>)
Keys(d) == {d[i][1] : i \in DOMAIN d}
Items(d) == {d[i] : i \in DOMAIN d}

\* test_rpc has returned to the call of configure_rpcs named s
Returned(s) == pc = "test_rpc_ret" /\ site = s

\* the for loop takes its next chain
NextChain(msgs) ==
  /\ chain_idx' = chain_idx + 1
  /\ Goto("configure_rpcs", msgs)
  /\ RpcIdle

\* the frame of a step of configure_rpcs that leaves its caller and the scan alone
CfgFrame == UNCHANGED <<deploys, steps, diskVars, statVars, private_key, env_content, opt_idx>>

\* for chain, public_rpc in default_rpcs.items(): if test_rpc(public_rpc, chain)
ProbePublic ==
  /\ pc = "configure_rpcs"
  /\ chain_idx <= NumChains
  /\ test_rpc_call(default_rpcs[chain_idx][2], ChainName(chain_idx), "public")
  /\ prompts' = << >>
  /\ probes' = << >>
  /\ out' = << >>
  /\ UNCHANGED <<exit_code, chain_idx, rpcs, skipped_chains, custom_rpc, probed_ok>>
  /\ CfgFrame

PublicOk ==
  /\ Returned("public") /\ Truthy(rpc_ret)
  /\ rpcs' = DictSet(rpcs, ChainName(chain_idx), default_rpcs[chain_idx][2])
  /\ NextChain(<< >>)
  /\ UNCHANGED <<skipped_chains, custom_rpc, prompts, probes, probed_ok>>
  /\ CfgFrame

PublicFailed ==
  /\ Returned("public") /\ ~Truthy(rpc_ret)
  /\ Goto("ask_alchemy", <<"public_rpc_unavailable">>)
  /\ RpcIdle
  /\ UNCHANGED <<chain_idx, rpcs, skipped_chains, custom_rpc, prompts, probes, probed_ok>>
  /\ CfgFrame

\* alchemy_key = input(...).strip(); a key is probed, a blank goes on to option 2
AskAlchemy ==
  /\ pc = "ask_alchemy"
  /\ prompts' = Append(prompts, "alchemy_key")
  /\ out' = << >>
  /\ \E typed \in Typed :
       LET alchemy_key == Strip(typed) IN
       IF alchemy_key # ""
         THEN /\ custom_rpc' = alchemy_urls(chain_idx, alchemy_key)
              /\ test_rpc_call(alchemy_urls(chain_idx, alchemy_key), ChainName(chain_idx), "alchemy")
         ELSE /\ pc' = "ask_custom"
              /\ UNCHANGED <<custom_rpc, rpcVars>>
  /\ UNCHANGED <<exit_code, chain_idx, rpcs, skipped_chains, probes, probed_ok>>
  /\ CfgFrame

\* AlchemyOk without its continue: the chain is recorded and option 2 is asked
AlchemyOk_no_continue ==
  /\ Returned("alchemy") /\ Truthy(rpc_ret)
  /\ rpcs' = DictSet(rpcs, ChainName(chain_idx), custom_rpc)
  /\ Goto("ask_custom", <<"rpc_configured">>)
  /\ RpcIdle
  /\ UNCHANGED <<chain_idx, skipped_chains, custom_rpc, prompts, probes, probed_ok>>
  /\ CfgFrame

AlchemyOk ==
  /\ Returned("alchemy") /\ Truthy(rpc_ret)
  /\ rpcs' = DictSet(rpcs, ChainName(chain_idx), custom_rpc)
  /\ NextChain(<<"rpc_configured">>)
  /\ UNCHANGED <<skipped_chains, custom_rpc, prompts, probes, probed_ok>>
  /\ CfgFrame

AlchemyFailed ==
  /\ Returned("alchemy") /\ ~Truthy(rpc_ret)
  /\ Goto("ask_custom", <<"alchemy_rpc_unavailable">>)
  /\ RpcIdle
  /\ UNCHANGED <<chain_idx, rpcs, skipped_chains, custom_rpc, prompts, probes, probed_ok>>
  /\ CfgFrame

\* custom_rpc = input(...).strip(), not blank
AskCustom ==
  /\ pc = "ask_custom"
  /\ prompts' = Append(prompts, "custom_rpc")
  /\ out' = << >>
  /\ \E typed \in Typed :
       /\ Strip(typed) # ""
       /\ custom_rpc' = Strip(typed)
       /\ test_rpc_call(Strip(typed), ChainName(chain_idx), "custom")
  /\ UNCHANGED <<exit_code, chain_idx, rpcs, skipped_chains, probes, probed_ok>>
  /\ CfgFrame

\* SkipChain without rpcs[chain] = ""
SkipChain_unrecorded ==
  /\ pc = "ask_custom"
  /\ prompts' = Append(prompts, "custom_rpc")
  /\ \E typed \in Typed :
       /\ Strip(typed) = ""
       /\ custom_rpc' = ""
  /\ skipped_chains' = Append(skipped_chains, ChainName(chain_idx))
  /\ NextChain(<<"chain_skipped">>)
  /\ UNCHANGED <<rpcs, probes, probed_ok>>
  /\ CfgFrame

\* custom_rpc left blank: the chain is skipped
SkipChain ==
  /\ pc = "ask_custom"
  /\ prompts' = Append(prompts, "custom_rpc")
  /\ \E typed \in Typed :
       /\ Strip(typed) = ""
       /\ custom_rpc' = ""
  /\ skipped_chains' = Append(skipped_chains, ChainName(chain_idx))
  /\ rpcs' = DictSet(rpcs, ChainName(chain_idx), "")
  /\ NextChain(<<"chain_skipped">>)
  /\ UNCHANGED <<probes, probed_ok>>
  /\ CfgFrame

CustomOk ==
  /\ Returned("custom") /\ Truthy(rpc_ret)
  /\ rpcs' = DictSet(rpcs, ChainName(chain_idx), custom_rpc)
  /\ NextChain(<<"rpc_configured">>)
  /\ UNCHANGED <<skipped_chains, custom_rpc, prompts, probes, probed_ok>>
  /\ CfgFrame

CustomFailed ==
  /\ Returned("custom") /\ ~Truthy(rpc_ret)
  /\ Abort("custom_rpc_unavailable")
  /\ steps' = Append(steps, <<"configuration", FALSE>>)
  /\ UNCHANGED <<deploys, diskVars>>

(* ---------------------------- configure_env --------------------------- *)
options ==
  << <<"EXECUTOR_MAX_BID_AMOUNT", "1000">>,
     <<"EXECUTOR_MIN_ORDER_VALUE", "10">>,
     <<"EXECUTOR_CONCURRENT_REQUESTS", "5">>,
     <<"EXECUTOR_GAS_LIMIT", "200000">> >>

\* json.dumps(rpcs), without the filter
rpc_json_unfiltered(d) == d

\* json.dumps({chain: rpc for chain, rpc in rpcs.items() if rpc}): the members
\* of the JSON object, in order
rpc_json(d) == SelectSeq(d, LAMBDA item : item[2] # "")

\* private_key = getpass.getpass(...); rpcs = configure_rpcs()
AskPrivateKey ==
  /\ pc = "configure_env"
  /\ \E typed \in {"", "0xKEY"} :
       IF typed = ""
         THEN /\ Abort("private_key_empty")
              /\ steps' = Append(steps, <<"configuration", FALSE>>)
         ELSE /\ private_key' = typed
              /\ chain_idx' = 1
              /\ Goto("configure_rpcs", << >>)
              /\ UNCHANGED <<steps, rpcVars, statVars>>
              /\ UNCHANGED <<rpcs, skipped_chains, custom_rpc, prompts, probes, probed_ok,
                             env_content, opt_idx>>
  /\ UNCHANGED <<deploys, diskVars>>

\* configure_rpcs is through its loop: the warnings, the summary, return rpcs;
\* configure_env builds env_content up to EXECUTOR_RPC_URLS
ConfigureRpcsReturn ==
  /\ pc = "configure_rpcs"
  /\ chain_idx > NumChains
  /\ Goto("env_options",
          (IF skipped_chains # << >> THEN <<"skipped_warning">> ELSE << >>) \o <<"rpc_summary">>)
  /\ env_content' = [kind |-> "env",
                     EXECUTOR_PRIVATE_KEY |-> private_key,
                     EXECUTOR_RPC_URLS |-> rpc_json(rpcs),
                     settings |-> << >>]
  /\ opt_idx' = 1
  /\ custom_rpc' = ""
  /\ prompts' = << >>
  /\ probes' = << >>
  /\ UNCHANGED <<chain_idx, rpcs, skipped_chains, probed_ok, private_key>>
  /\ UNCHANGED <<deploys, steps, diskVars, rpcVars, statVars>>

\* for key, desc, default in options
EnvOption ==
  /\ pc = "env_options"
  /\ opt_idx <= Len(options)
  /\ \E typed \in {"y", " Y ", "n", ""}, typed_value \in {"7", " 7 ", "x", ""} :
       LET choice == Lower(Strip(typed))
           value == Strip(typed_value)
           key == options[opt_idx][1]
           default == options[opt_idx][2]
       IN IF choice = "y" /\ ~IsDigit(value)
            THEN /\ Abort("not_an_integer")
                 /\ steps' = Append(steps, <<"configuration", FALSE>>)
            ELSE /\ env_content' =
                      [env_content EXCEPT !.settings =
                         Append(@, <<key, IF choice = "y" THEN value ELSE default>>)]
                 /\ opt_idx' = opt_idx + 1
                 /\ out' = << >>
                 /\ UNCHANGED <<pc, exit_code, steps, rpcVars, statVars>>
                 /\ UNCHANGED <<chain_idx, rpcs, skipped_chains, custom_rpc, prompts, probes,
                                probed_ok, private_key>>
  /\ UNCHANGED <<deploys, diskVars>>

\* with open(".env", "w") as f: f.write(...); os.chmod(".env", 0o600)
WriteEnv ==
  /\ pc = "env_options"
  /\ opt_idx > Len(options)
  /\ \E ok \in BOOLEAN :
       IF ok
         THEN /\ env_file' = env_content
              /\ Goto("env_written", <<"env_written">>)
              /\ UNCHANGED <<steps, cfgVars, rpcVars, statVars>>
         ELSE /\ Abort("env_write_failed")
              /\ steps' = Append(steps, <<"configuration", FALSE>>)
              /\ UNCHANGED env_file
  /\ UNCHANGED <<deploys, cwd, log_files, sessions, temp_exists>>

(* --------------------------- deploy_executor -------------------------- *)
\* minimum free disk space and available memory, in MB
MinDiskMB == 1024
MinMemoryMB == 512

\* the step succeeded and deploy_executor goes on
StepOk(name, next) ==
  /\ steps' = Append(steps, <<name, TRUE>>)
  /\ Goto(next, << >>)
  /\ UNCHANGED <<cfgVars, rpcVars, statVars>>

\* the step failed and the script exits 1, by sys.exit(1) or by the top-level handler
StepAbort(name, m) ==
  /\ steps' = Append(steps, <<name, FALSE>>)
  /\ Abort(m)

check_system_resources ==
  /\ pc = "check_system_resources"
  /\ \E available_disk \in {MinDiskMB - 1, MinDiskMB},
        available_memory \in {MinMemoryMB - 1, MinMemoryMB},
        meminfo \in {"ok", "no_MemAvailable", "unreadable"} :
       CASE available_disk < MinDiskMB -> StepAbort("preflight", "disk_low")
         [] available_disk >= MinDiskMB /\ meminfo # "ok" -> StepAbort("preflight", "meminfo_failed")
         [] available_disk >= MinDiskMB /\ meminfo = "ok" /\ available_memory < MinMemoryMB ->
              StepAbort("preflight", "memory_low")
         [] OTHER -> StepOk("preflight", "check_dependencies")
  /\ UNCHANGED <<deploys, diskVars>>

dependencies == {"curl", "tar", "wget", "screen"}

\* for cmd in dependencies: install it when shutil.which(cmd) is None
check_dependencies ==
  /\ pc = "check_dependencies"
  /\ \E missing \in SUBSET dependencies, install_ok \in BOOLEAN :
       IF missing = {} \/ install_ok
         THEN StepOk("dependencies", "enter_t3rn")
         ELSE StepAbort("dependencies", "install_failed")
  /\ UNCHANGED <<deploys, diskVars>>

\* the .env a directory holds when the script enters it: one left by an earlier
\* installation there, or none
EnvIn(dir) == IF dir \in log_files THEN StaleFile ELSE NoFile

\* os.mkdir("t3rn") if missing; os.chdir("t3rn")
EnterT3rn ==
  /\ pc = "enter_t3rn"
  /\ \E ok \in BOOLEAN :
       IF ok
         THEN /\ cwd' = Append(cwd, "t3rn")
              /\ env_file' = NoFile
              /\ StepOk("working_directory", "get_release")
         ELSE /\ StepAbort("working_directory", "t3rn_dir_failed")
              /\ UNCHANGED <<cwd, env_file>>
  /\ UNCHANGED <<deploys, log_files, sessions, temp_exists>>

\* requests.get(.../releases/latest); response.json()["tag_name"]: a body
\* without tag_name raises KeyError, which only the top level catches
GetRelease ==
  /\ pc = "get_release"
  /\ \E resp \in {"tag", "request_error", "malformed", "no_tag_name"} :
       CASE resp = "tag" -> StepOk("release_tag", "download")
         [] resp = "no_tag_name" -> StepAbort("release_tag", "unknown_error")
         [] OTHER -> StepAbort("release_tag", "release_failed")
  /\ UNCHANGED <<deploys, diskVars>>

\* curl -LO executor_url
Download ==
  /\ pc = "download"
  /\ \E ok \in BOOLEAN :
       IF ok THEN StepOk("download", "extract") ELSE StepAbort("download", "download_failed")
  /\ UNCHANGED <<deploys, diskVars>>

\* tar -xzf
Extract ==
  /\ pc = "extract"
  /\ \E ok \in BOOLEAN :
       IF ok THEN StepOk("extract", "remove_archive") ELSE StepAbort("extract", "download_failed")
  /\ UNCHANGED <<deploys, diskVars>>

\* os.remove(archive): an OSError is caught only at the top level
RemoveArchive ==
  /\ pc = "remove_archive"
  /\ \E ok \in BOOLEAN :
       IF ok THEN StepOk("remove_archive", "enter_bin")
             ELSE StepAbort("remove_archive", "unknown_error")
  /\ UNCHANGED <<deploys, diskVars>>

\* os.chdir("executor/executor/bin"); then configure_env()
EnterBin ==
  /\ pc = "enter_bin"
  /\ \E ok \in BOOLEAN :
       IF ok
         THEN /\ cwd' = Append(cwd, "executor/executor/bin")
              /\ env_file' = EnvIn(Append(cwd, "executor/executor/bin"))
              /\ StepOk("binary_directory", "configure_env")
         ELSE /\ StepAbort("binary_directory", "bin_dir_failed")
              /\ UNCHANGED <<cwd, env_file>>
  /\ UNCHANGED <<deploys, log_files, sessions, temp_exists>>

\* configure_env() returns to deploy_executor
ConfigureEnvReturn ==
  /\ pc = "env_written"
  /\ steps' = Append(steps, <<"configuration", TRUE>>)
  /\ Goto("chmod_executor", << >>)
  /\ CfgIdle
  /\ UNCHANGED <<deploys, diskVars, rpcVars, statVars>>

\* if not os.access(executor_path, os.X_OK): os.chmod(executor_path, 0o755)
ChmodExecutor ==
  /\ pc = "chmod_executor"
  /\ \E ok \in BOOLEAN :
       IF ok THEN StepOk("executable_bit", "check_session")
             ELSE StepAbort("executable_bit", "unknown_error")
  /\ UNCHANGED <<deploys, diskVars>>

\* screen -list; "t3rn-executor" in screen_list.stdout
SessionListed == sessions # {}

CheckSession ==
  /\ pc = "check_session"
  /\ IF SessionListed
       THEN Goto("confirm_replace", <<"session_exists">>) /\ UNCHANGED steps
       ELSE Goto("launch", << >>) /\ steps' = Append(steps, <<"session_check", TRUE>>)
  /\ UNCHANGED <<deploys, diskVars, cfgVars, rpcVars, statVars>>

\* confirm = input(...).strip().lower(); anything but y returns to the menu;
\* on y: screen -S t3rn-executor -X quit, whose exit status is not looked at
ConfirmReplace ==
  /\ pc = "confirm_replace"
  /\ \E typed \in {"y", " Y ", "n", ""} :
       IF Lower(Strip(typed)) # "y"
         THEN /\ Goto("main_menu", <<"deploy_cancelled", "screen_help">>)
              /\ steps' = << >>
              /\ UNCHANGED sessions
         ELSE \E quit_ok \in BOOLEAN :
              /\ sessions' = IF quit_ok THEN {} ELSE sessions
              /\ steps' = Append(steps, <<"session_check", quit_ok>>)
              /\ Goto("launch", << >>)
  /\ UNCHANGED <<deploys, cwd, log_files, env_file, temp_exists>>
  /\ UNCHANGED <<cfgVars, rpcVars, statVars>>

\* with open("executor.log", "a") as log: subprocess.Popen(["screen", "-dmS", ...]).
\* Popen returns once screen is spawned, and the step is through; whether the
\* session came up (and is still up two seconds later) shows only in the listing.
Launch ==
  /\ pc = "launch"
  /\ \E outcome \in {"open_error", "popen_error", "started", "not_started"} :
       CASE outcome = "open_error" ->
              /\ StepAbort("launch", "launch_failed")
              /\ UNCHANGED <<log_files, sessions>>
         [] outcome = "popen_error" ->
              /\ log_files' = log_files \cup {cwd}
              /\ StepAbort("launch", "launch_failed")
              /\ UNCHANGED sessions
         [] outcome = "started" ->
              /\ log_files' = log_files \cup {cwd}
              /\ sessions' = sessions \cup {deploys}
              /\ StepOk("launch", "verify_session")
         [] OTHER ->
              /\ log_files' = log_files \cup {cwd}
              /\ StepOk("launch", "verify_session")
              /\ UNCHANGED sessions
  /\ UNCHANGED <<deploys, cwd, env_file, temp_exists>>

\* time.sleep(2); screen -list; "t3rn-executor" in screen_check.stdout
VerifySession ==
  /\ pc = "verify_session"
  /\ IF SessionListed
       THEN /\ steps' = Append(steps, <<"verify", TRUE>>)
            /\ Goto("deploy_done", <<"deploy_ok">>)
            /\ UNCHANGED <<cfgVars, rpcVars, statVars>>
       ELSE StepAbort("verify", "start_failed")
  /\ UNCHANGED <<deploys, diskVars>>

\* deploy_executor() returns; main calls show_screen_help()
DeployDone ==
  /\ pc = "deploy_done"
  /\ Goto("main_menu", <<"screen_help">>)
  /\ steps' = << >>
  /\ UNCHANGED <<deploys, diskVars, cfgVars, rpcVars, statVars>>

(* -------------------------------- main -------------------------------- *)
MainMenu ==
  /\ pc = "main_menu"
  /\ \E choice \in {"1", "2", "0", "x"} :
       CASE choice = "1" ->
              /\ deploys < MaxDeploys
              /\ deploys' = deploys + 1
              /\ steps' = << >>
              /\ Goto("check_system_resources", <<"deploy_start">>)
              /\ UNCHANGED <<cfgVars, rpcVars, statVars>>
         [] choice = "2" ->
              /\ Goto("view_logs", << >>)
              /\ UNCHANGED <<deploys, steps, cfgVars, rpcVars, statVars>>
         [] choice = "0" ->
              /\ Exit(0, <<"goodbye", "screen_help">>)
              /\ UNCHANGED <<deploys, steps>>
         [] OTHER ->
              /\ Goto("main_menu", <<"invalid_option">>)
              /\ UNCHANGED <<deploys, steps, cfgVars, rpcVars, statVars>>
  /\ UNCHANGED <<diskVars>>

(* ------------------------------ view_logs ----------------------------- *)
\* log_file = "t3rn/executor/executor/bin/executor.log": the directory part
log_file == <<"t3rn", "executor/executor/bin">>

\* os.path.exists(log_file): a relative path is resolved against the working directory
LogExists == (cwd \o log_file) \in log_files

\* the sub-menu: 1 view_latest_logs(), 2 view_order_stats(), 0 back
ViewLogs ==
  /\ pc = "view_logs"
  /\ \E choice \in {"1", "2", "0", "x"} :
       CASE choice = "1" ->
              /\ IF LogExists THEN Goto("tail", <<"tail_hint">>)
                              ELSE Goto("view_logs", <<"log_missing">>)
              /\ UNCHANGED now
         [] choice = "2" ->
              IF LogExists
                THEN Goto("stats_open", <<"stats_range">>) /\ now' \in Nows
                ELSE Goto("view_logs", <<"log_missing">>) /\ UNCHANGED now
         [] choice = "0" -> Goto("main_menu", <<"back_to_main">>) /\ UNCHANGED now
         [] OTHER -> Goto("view_logs", <<"invalid_option">>) /\ UNCHANGED now
  /\ UNCHANGED <<deploys, steps, diskVars, cfgVars, rpcVars>>
  /\ UNCHANGED <<log_lines, log_rest, temp, temp_file, completed, pending>>

\* tail -n 50 -f ends by itself (killed, or its file went away)
TailExit ==
  /\ pc = "tail"
  /\ Goto("view_logs", << >>)
  /\ UNCHANGED <<deploys, steps, diskVars, cfgVars, rpcVars, statVars>>

\* view_latest_logs without its own except clause
KeyboardInterruptHandler_top(p) == "__main__"

\* which except KeyboardInterrupt clause gets an interrupt raised at position p
KeyboardInterruptHandler(p) == IF p = "tail" THEN "view_latest_logs" ELSE "__main__"

\* Ctrl+C
KeyboardInterrupt ==
  /\ pc # "exited"
  /\ IF KeyboardInterruptHandler(pc) = "view_latest_logs"
       THEN /\ Goto("view_logs", <<"tail_stopped">>)
            /\ UNCHANGED <<steps, cfgVars, rpcVars, statVars>>
       ELSE /\ Exit(0, <<"interrupted", "screen_help">>)
            /\ steps' = << >>
  /\ UNCHANGED <<deploys, diskVars>>

(* --------------------------- view_order_stats ------------------------- *)
\* the statistics interval, in seconds
OneHour == 3600
SecondsPerDay == 86400

\* two decimal digits, as character codes
Digits2(n) == <<48 + (n \div 10), 48 + (n % 10)>>

\* strftime("%Y-%m-%d %H:%M:%S") of an instant of January 2024, as character codes
Strftime(t) ==
  <<50, 48, 50, 52, 45, 48, 49, 45>> \o Digits2((t \div SecondsPerDay) + 1) \o <<32>>
    \o Digits2((t % SecondsPerDay) \div 3600) \o <<58>>
    \o Digits2((t % 3600) \div 60) \o <<58>> \o Digits2(t % 60)

IsDigitCode(c) == 48 <= c /\ c <= 57

\* re.match(r"^\[\d{4}-\d{2}-\d{2} \d{2}:\d{2}:\d{2}", line)
MatchesTimestamp(line) ==
  /\ Len(line) >= 20
  /\ line[1] = 91
  /\ \A i \in {2, 3, 4, 5, 7, 8, 10, 11, 13, 14, 16, 17, 19, 20} : IsDigitCode(line[i])
  /\ line[6] = 45 /\ line[9] = 45
  /\ line[12] = 32
  /\ line[15] = 58 /\ line[18] = 58

\* a >= b for two Python strings: the first differing character decides, and a
\* proper prefix is the smaller
StrGE(a, b) ==
  LET n == IF Len(a) < Len(b) THEN Len(a) ELSE Len(b)
      diff == {i \in 1..n : a[i] # b[i]}
  IN IF diff = {} THEN Len(a) >= Len(b) ELSE a[Min(diff)] > b[Min(diff)]

\* one_hour_ago = (datetime.now() - timedelta(hours=1)).strftime(...)
one_hour_ago(t) == Strftime(t - OneHour)

\* the filter of the first pass: re.match(...) and line >= f"[{one_hour_ago}]"
in_window(text, t) ==
  MatchesTimestamp(text) /\ StrGE(text, <<91>> \o one_hour_ago(t) \o <<93>>)

\* A log line: its first characters (text), the status markers the rest of it
\* holds, and for a line that the Executor stamped the instant of the stamp.
Stamped(t, next_char, marks) ==
  [stamped |-> TRUE, ts |-> t, text |-> <<91>> \o Strftime(t) \o <<next_char>>, marks |-> marks]
Unstamped(text, marks) ==
  [stamped |-> FALSE, ts |-> 0, text |-> text, marks |-> marks]

Marks == {{}, {"completed"}, {"pending"}, {"failed"}}

\* the lines a log read at instant t may hold: stamped before, at, inside and
\* after the interval, closed by "]" (or, at the lower end, followed by ".");
\* or starting with "{"
LinesAt(t) ==
  {Stamped(u, 93, m) : u \in {t - OneHour - 1, t - OneHour, t, t + 1}, m \in Marks}
    \cup {Stamped(t - OneHour, 46, m) : m \in Marks}
    \cup {Unstamped(<<123>>, m) : m \in Marks}

LogsAt(t) == UNION {[1..n -> LinesAt(t)] : n \in 0..MaxLines}

\* except Exception as e: print(...); if os.path.exists(temp_file): os.remove(temp_file).
\* With temp_file unbound the handler itself raises, and the top level exits 1.
StatsExcept(bound) ==
  IF bound
    THEN /\ temp_exists' = FALSE
         /\ Goto("view_logs", <<"stats_failed">>)
         /\ StatsIdle
         /\ UNCHANGED <<cfgVars, rpcVars>>
    ELSE /\ Exit(1, <<"stats_failed", "unknown_error">>)
         /\ UNCHANGED temp_exists

\* with open(log_file, "r") as f, tempfile.NamedTemporaryFile(mode="w", delete=False) as temp
StatsOpen ==
  /\ pc = "stats_open"
  /\ \E outcome \in {"ok", "open_error", "mktemp_error"} :
       IF outcome = "ok"
         THEN /\ temp_exists' = TRUE
              /\ \E log \in LogsAt(now) : log_lines' = log /\ log_rest' = Len(log)
              /\ Goto("stats_filter", << >>)
              /\ UNCHANGED <<now, temp, temp_file, completed, pending, cfgVars, rpcVars>>
         ELSE StatsExcept(temp_file)
  /\ UNCHANGED <<deploys, steps, cwd, log_files, env_file, sessions>>

\* for line in f: if in window, temp.write(line)
StatsReadLine ==
  /\ pc = "stats_filter"
  /\ log_rest > 0
  /\ \E read_ok \in BOOLEAN :
       IF read_ok
         THEN LET line == log_lines[Len(log_lines) - log_rest + 1] IN
              /\ temp' = IF in_window(line.text, now) THEN Append(temp, line) ELSE temp
              /\ log_rest' = log_rest - 1
              /\ Goto("stats_filter", << >>)
              /\ UNCHANGED <<now, log_lines, temp_exists, temp_file, completed, pending>>
              /\ UNCHANGED <<cfgVars, rpcVars>>
         ELSE StatsExcept(temp_file)
  /\ UNCHANGED <<deploys, steps, cwd, log_files, env_file, sessions>>

\* temp_file = temp.name; leaving the with block closes both files
StatsFilterDone ==
  /\ pc = "stats_filter"
  /\ log_rest = 0
  /\ \E close_ok \in BOOLEAN :
       IF close_ok
         THEN /\ temp_file' = TRUE
              /\ Goto("stats_count", << >>)
              /\ UNCHANGED <<now, log_lines, log_rest, temp, temp_exists, completed, pending>>
              /\ UNCHANGED <<cfgVars, rpcVars>>
         ELSE StatsExcept(TRUE)
  /\ UNCHANGED <<deploys, steps, cwd, log_files, env_file, sessions>>

Count(seq, P(_)) == Len(SelectSeq(seq, P))

\* the second pass over the temporary file, the report, os.remove(temp_file)
StatsCount ==
  /\ pc = "stats_count"
  /\ \E read_ok \in BOOLEAN :
       IF read_ok
         THEN /\ completed' = Count(temp, LAMBDA line : "completed" \in line.marks)
              /\ pending' = SelectSeq(temp, LAMBDA line :
                                "pending" \in line.marks \/ "failed" \in line.marks)
              /\ temp_exists' = FALSE
              /\ Goto("stats_done", <<"stats_report">>)
              /\ UNCHANGED <<now, log_lines, log_rest, temp, temp_file, cfgVars, rpcVars>>
         ELSE StatsExcept(temp_file)
  /\ UNCHANGED <<deploys, steps, cwd, log_files, env_file, sessions>>

\* view_order_stats() returns to view_logs
StatsReturn ==
  /\ pc = "stats_done"
  /\ Goto("view_logs", << >>)
  /\ StatsIdle
  /\ UNCHANGED <<deploys, steps, diskVars, cfgVars, rpcVars>>

(* ---------------------------- specification --------------------------- *)
\* The script starts at the main menu in its start directory; an earlier run
\* may have left an installation (its log) and a running session.
Init ==
  /\ pc = "main_menu"
  /\ exit_code = Running
  /\ out = << >>
  /\ cwd = << >>
  /\ log_files \in {{}, {log_file}}
  /\ env_file = NoFile
  /\ sessions \in {{}, {0}}
  /\ temp_exists = FALSE
  /\ deploys = 0
  /\ steps = << >>
  /\ chain_idx = 0 /\ rpcs = << >> /\ skipped_chains = << >> /\ custom_rpc = ""
  /\ prompts = << >> /\ probes = << >> /\ probed_ok = {}
  /\ private_key = "" /\ env_content = NoFile /\ opt_idx = 0
  /\ site = "none" /\ rpc_url = "" /\ rpc_chain = "" /\ requests = << >>
  /\ responses = << >> /\ rpc_ret = "none"
  /\ now = 0 /\ log_lines = << >> /\ log_rest = 0 /\ temp = << >>
  /\ temp_file = FALSE /\ completed = 0 /\ pending = << >>

Next ==
  \/ MainMenu
  \/ check_system_resources
  \/ check_dependencies
  \/ EnterT3rn
  \/ GetRelease
  \/ Download
  \/ Extract
  \/ RemoveArchive
  \/ EnterBin
  \/ AskPrivateKey
  \/ ProbePublic
  \/ TestRpcEth
  \/ TestRpcNet
  \/ PublicOk
  \/ PublicFailed
  \/ AskAlchemy
  \/ AlchemyOk
  \/ AlchemyFailed
  \/ AskCustom
  \/ SkipChain
  \/ CustomOk
  \/ CustomFailed
  \/ ConfigureRpcsReturn
  \/ EnvOption
  \/ WriteEnv
  \/ ConfigureEnvReturn
  \/ ChmodExecutor
  \/ CheckSession
  \/ ConfirmReplace
  \/ Launch
  \/ VerifySession
  \/ DeployDone
  \/ ViewLogs
  \/ TailExit
  \/ KeyboardInterrupt
  \/ StatsOpen
  \/ StatsReadLine
  \/ StatsFilterDone
  \/ StatsCount
  \/ StatsReturn

Spec == Init /\ [][Next]_vars

(* ------------------------------ properties ---------------------------- *)
Range(seq) == {seq[i] : i \in DOMAIN seq}

\* C1 (as claimed): the EXECUTOR_RPC_URLS value that configure_env writes holds
\* an entry for every chain of the list, a skipped chain with "" as its URL:
\* the serialized mapping is the final chain -> URL mapping.
C1_EnvHoldsEveryChain ==
  pc = "env_written" =>
    /\ env_file.kind = "env"
    /\ Keys(env_file.EXECUTOR_RPC_URLS) = Chains
    /\ Items(env_file.EXECUTOR_RPC_URLS) = Items(rpcs)

\* C1 (amended): the EXECUTOR_RPC_URLS value that configure_env writes holds
\* exactly the chains whose URL is not empty, each once and with the URL
\* configure_rpcs returned for it; a skipped chain has no entry in it.
C1_EnvHoldsConfiguredChains ==
  pc = "env_written" =>
    /\ env_file.kind = "env"
    /\ Items(env_file.EXECUTOR_RPC_URLS) = {item \in Items(rpcs) : item[2] # ""}
    /\ Cardinality(Keys(env_file.EXECUTOR_RPC_URLS)) = Len(env_file.EXECUTOR_RPC_URLS)
    /\ \A chain \in Range(skipped_chains) : chain \notin Keys(env_file.EXECUTOR_RPC_URLS)

\* the file is written after a flow that skipped one chain and configured another
C1_Witness ==
  /\ pc = "env_written"
  /\ skipped_chains # << >>
  /\ env_file.kind = "env"
  /\ env_file.EXECUTOR_RPC_URLS # << >>

\* C2: once view_order_stats is past the existence check, its temporary file is
\* gone when the operation ends, also when reading the log failed, and a failed
\* scan reports its error and returns to the log menu.
C2_TempFileAlwaysRemoved ==
  (pc \notin {"stats_open", "stats_filter", "stats_count"}
     /\ out # <<"interrupted", "screen_help">>) =>
    /\ ~temp_exists
    /\ "stats_failed" \in Range(out) => pc = "view_logs"

\* C3: a custom URL that does not probe reachable ends the flow with exit code
\* 1, nothing is returned and .env is not written; the probe of an API-key URL
\* never ends the flow, and when it has not found the URL reachable the next
\* step is the custom-URL prompt of the same chain.
C3_CustomFatalAlchemyFallsThrough ==
  [][~KeyboardInterrupt =>
       /\ (Returned("custom") /\ ~Truthy(rpc_ret)) =>
            (pc' = "exited" /\ exit_code' = 1 /\ env_file' = env_file /\ rpcs' = << >>)
       /\ (site = "alchemy" /\ pc \in {"test_rpc_eth", "test_rpc_net"}) =>
            (pc' # "exited" /\ exit_code' = Running)
       /\ (Returned("alchemy") /\ ~Truthy(rpc_ret)) =>
            (pc' = "ask_custom" /\ exit_code' = Running /\ chain_idx' = chain_idx
               /\ rpcs' = rpcs)
    ]_vars

\* C4: the mapping configure_rpcs returns has one entry per chain of the list,
\* in the order of the list, and no other key; an entry is "" or a URL that
\* test_rpc returned True for with that chain in this flow; the chains with ""
\* are the chains reported as skipped.
C4_ReturnedMappingCoversChains ==
  pc \in {"env_options", "env_written"} =>
    /\ Len(rpcs) = NumChains
    /\ \A i \in DOMAIN rpcs : rpcs[i][1] = ChainName(i)
    /\ \A i \in DOMAIN rpcs : rpcs[i][2] = "" \/ rpcs[i] \in probed_ok
    /\ {rpcs[i][1] : i \in {j \in DOMAIN rpcs : rpcs[j][2] = ""}} = Range(skipped_chains)
    /\ Len(skipped_chains) = Cardinality(Range(skipped_chains))

\* configure_rpcs has returned a mapping with a skipped and a configured chain
C4_Witness ==
  /\ pc = "env_options"
  /\ skipped_chains # << >>
  /\ \E i \in DOMAIN rpcs : rpcs[i][2] # ""

SiteOrder(s) == CASE s = "public" -> 1 [] s = "alchemy" -> 2 [] OTHER -> 3

\* C5: for each chain the probes go public, API key, custom, in this order; a
\* probe that comes back True is the last of the chain and its URL is the one
\* recorded; after a reachable public URL no prompt is issued for the chain,
\* after a reachable API-key URL the custom-URL prompt is not issued.
C5_OptionsTriedInOrder ==
  /\ prompts \in {<< >>, <<"alchemy_key">>, <<"alchemy_key", "custom_rpc">>}
  /\ probes # << >> => probes[1][1] = "public"
  /\ \A i, j \in DOMAIN probes : i < j => SiteOrder(probes[i][1]) < SiteOrder(probes[j][1])
  /\ \A i \in DOMAIN probes :
       probes[i][3] = "True" =>
         /\ i = Len(probes)
         /\ probes[i][1] = "public" => prompts = << >>
         /\ probes[i][1] = "alchemy" => prompts = <<"alchemy_key">>
  /\ (pc = "configure_rpcs" /\ chain_idx > 1 /\ probes # << >>) =>
       rpcs[chain_idx - 1][2] =
         (IF probes[Len(probes)][3] = "True" THEN probes[Len(probes)][2] ELSE "")

\* a chain is through with its API-key URL reachable after its public URL was not
C5_Witness ==
  /\ pc = "configure_rpcs"
  /\ chain_idx > 1
  /\ Len(probes) = 2
  /\ probes[2][1] = "alchemy" /\ probes[2][3] = "True"
  /\ prompts = <<"alchemy_key">>

InLastHour(line, t) == line.stamped /\ t - OneHour <= line.ts /\ line.ts <= t

\* C6: a line that adds to the completed count or to the unfinished count is
\* stamped with an instant t, now - 1 hour <= t <= now; lines stamped earlier or
\* later and lines without a stamp add to neither.
C6_CountedLinesWithinLastHour ==
  pc = "stats_done" =>
    /\ completed <= Count(log_lines, LAMBDA line :
                       "completed" \in line.marks /\ InLastHour(line, now))
    /\ \A k \in DOMAIN pending : InLastHour(pending[k], now)

\* C7: test_rpc posts eth_blockNumber, and net_version only when the first
\* probe did not succeed; it returns True exactly when one of the answers is
\* JSON with a result member, and otherwise returns False after the
\* unavailable warning.
C7_TestRpcReportsUnreachable ==
  pc = "test_rpc_ret" =>
    /\ requests \in {<<"eth_blockNumber">>, <<"eth_blockNumber", "net_version">>}
    /\ Len(requests) = 2 => responses[1] # "result"
    /\ rpc_ret = "True" <=> "result" \in Range(responses)
    /\ rpc_ret # "True" => (rpc_ret = "False" /\ out = <<"rpc_unavailable">>)

StepOrder ==
  <<"preflight", "dependencies", "working_directory", "release_tag", "download", "extract",
    "remove_archive", "binary_directory", "configuration", "executable_bit", "session_check",
    "launch", "verify">>

\* C8: deploy_executor runs its steps in the fixed order; a step that fails
\* ends the run with exit code 1 and no later step runs; success is reported
\* only when the session this run launched exists.
C8_DeployAbortsOnAnyFailure ==
  /\ Len(steps) <= Len(StepOrder)
  /\ \A i \in DOMAIN steps : steps[i][1] = StepOrder[i]
  /\ \A i \in DOMAIN steps : i < Len(steps) => steps[i][2]
  /\ (steps # << >> /\ ~steps[Len(steps)][2]) => (pc = "exited" /\ exit_code = 1)
  /\ pc = "deploy_done" => deploys \in sessions

\* C9 (as claimed): wherever an interrupt arrives, the script prints the closing
\* hint and exits with code 0.
C9_InterruptAlwaysExits ==
  [][KeyboardInterrupt =>
       (pc' = "exited" /\ exit_code' = 0 /\ out' = <<"interrupted", "screen_help">>)]_vars

\* C9 (amended): an interrupt that arrives while view_latest_logs tails the log
\* is caught there: the stop message is printed and the log menu prompts again;
\* an interrupt that arrives anywhere else is caught at the top level: the
\* closing hint is printed and the script exits with code 0.
C9_InterruptExitsExceptWhileTailing ==
  [][KeyboardInterrupt =>
       IF pc = "tail"
         THEN pc' = "view_logs" /\ exit_code' = Running /\ out' = <<"tail_stopped">>
         ELSE pc' = "exited" /\ exit_code' = 0 /\ out' = <<"interrupted", "screen_help">>
    ]_vars

\* the log menu is up again after an interrupt stopped the tailing
C9_Witness ==
  /\ pc = "view_logs"
  /\ out = <<"tail_stopped">>
  /\ exit_code = Running

\* C10: back at a menu after a deployment of this run succeeded, the log path
\* of the viewers resolves to the executor.log the launch opened, and the
\* working directory is the one the script started in.
C10_LogFoundAfterDeploy ==
  (pc \in {"main_menu", "view_logs"} /\ deploys > 0 /\ deploys \in sessions) =>
    /\ LogExists
    /\ cwd = << >>

====
